---- MODULE Spec2Model ----
(***************************************************************************)
(* Aura AI gateway: the usage ledger (in-memory and Redis circuit          *)
(* breakers), the streaming relay (StreamResponse), the proxy handler      *)
(* (ProxyHandler.ServeHTTP) and the background usage processor of main.    *)
(*                                                                         *)
(* Three specifications share the variables:                               *)
(*   SpecLedger  concurrent callers of CheckLimit / AddUsage / GetUsage    *)
(*   SpecRelay   one StreamResponse call over an upstream body             *)
(*   Spec        the gateway: handlers, usage channel, usage processor     *)
(* Spend is modelled with unbounded integers: the token counts drawn here  *)
(* keep every cost and every sum far inside int64.                         *)
(***************************************************************************)
EXTENDS Integers, Sequences, FiniteSets, TLC

\* ---------------------------------------------------------------- constants
\* circuitbreaker.go:14 and :18
MaxUsageMicroDollars == 10000000
CostPerTokenMicroDollars == 2

\* ------------------------------------------------------------------- bounds
\* Concurrent callers of the ledger API in SpecLedger.
NumCallers == 2
\* Ledger calls started in one behaviour of SpecLedger.
MaxOps == 4
\* Records in an upstream response body.
MaxRecords == 2
\* Capacity of the usage channel handed to NewProxyHandler / StreamResponse.
ChanCap == 1
\* Requests the server accepts in one behaviour of Spec.
MaxRequests == 3

\* API keys (caller tokens) and the token counts callers record.
Keys == {"k1", "k2"}
TokenCounts == {0, 1, 5000000}
Callers == 1..NumCallers

VARIABLES
    backend,     \* "memory" | "redis": the CircuitBreaker main constructed
    usageMap,    \* MemoryCircuitBreaker.usageMap: apiKey -> *int64 (0 = no entry)
    cells,       \* the int64 counters usageMap's pointers refer to
    redisStore,  \* Redis: key string -> decimal string (<<>> = redis.Nil)
    th,          \* SpecLedger: each caller's position and locals
    ops,         \* SpecLedger: ledger calls started so far
    hist,        \* SpecLedger: the last three calls, in the order they took effect
    recorded,    \* SpecLedger: per key, the tokens of every AddUsage call made
    everDenied,  \* SpecLedger: the keys some CheckLimit call has denied
    usageChan,   \* the buffered channel of UsageRecords (a sequence, oldest first)
    dropped,     \* UsageRecords that took the select's default branch
    errorRate,   \* metrics.ErrorRate: label -> count
    body,        \* SpecRelay: the bytes of resp.Body
    flusherOK,   \* SpecRelay: whether w is an http.Flusher
    apiKey,      \* SpecRelay: StreamResponse's apiKey argument
    respHead,    \* SpecRelay: resp.StatusCode and resp.Header, and what w got of them
    eofWithData, \* SpecRelay: resp.Body returns io.EOF together with its last bytes
    rpc,         \* SpecRelay: where StreamResponse is
    pos,         \* SpecRelay: bytes of body the scanner has consumed
    line,        \* SpecRelay: scanner.Bytes()
    tokenCount,  \* SpecRelay: the local tokenCount
    scanErr,     \* SpecRelay: scanner.Err() is bufio.ErrTooLong
    written,     \* SpecRelay: the bytes w.Write accepted
    flushed,     \* SpecRelay: how many of them a Flush has pushed out
    clientGone,  \* SpecRelay: the caller has disconnected
    wfail,       \* SpecRelay: a w.Write has returned an error
    afterFail,   \* SpecRelay: what the loop did after a failed write
    offered,     \* SpecRelay: the UsageRecords the select offered to usageChan
    req,         \* Spec: each handler goroutine's request and where ServeHTTP is
    started,     \* Spec: requests accepted so far
    worker,      \* Spec: the usage processor goroutine of main
    totalTokens, \* Spec: metrics.TotalTokens: api key -> count
    main,        \* Spec: where main's shutdown sequence is
    chanClosed,  \* Spec: close(usageChan) has run
    panics       \* Spec: sends a handler tried on the closed channel

ledgerVars == <<backend, usageMap, cells, redisStore>>
callerVars == <<th, ops, hist, recorded, everDenied>>
chanVars == <<usageChan, dropped, errorRate>>
relayVars == <<respHead, eofWithData, body, flusherOK, apiKey, rpc, pos, line, tokenCount, scanErr,
               written, flushed, clientGone, wfail, afterFail, offered>>
gwVars == <<req, started, worker, totalTokens, main, chanClosed, panics>>
vars == <<ledgerVars, callerVars, chanVars, relayVars, gwVars>>

\* ------------------------------------------------------------ decimal text
\* Redis keeps a counter as its decimal text; a text is a sequence of digits
\* (the counters here are never negative).
RECURSIVE FormatInt(_)
FormatInt(n) ==
    IF n < 10 THEN <<n>> ELSE Append(FormatInt(n \div 10), n % 10)

\* strconv.ParseInt(val, 10, 64): [ok, n]; the empty text and a non-digit fail.
RECURSIVE ParseDigits(_, _)
ParseDigits(s, acc) ==
    IF s = <<>> THEN acc ELSE ParseDigits(Tail(s), acc * 10 + Head(s))

ParseInt(s) ==
    IF s = <<>> \/ \E i \in 1..Len(s) : s[i] \notin 0..9
    THEN [ok |-> FALSE, n |-> 0]
    ELSE [ok |-> TRUE, n |-> ParseDigits(s, 0)]

\* ------------------------------------------------------ in-memory ledger
NoRef == 0

\* syncMap.Load
Load(key) == [ok |-> usageMap[key] # NoRef, ref |-> usageMap[key]]

\* A plausible bug: Store in place of LoadOrStore, so every call installs a
\* fresh counter over the one already there.
LoadOrStoreAlwaysStores(key, value) ==
    [ref |-> Len(cells) + 1,
     map |-> [usageMap EXCEPT ![key] = Len(cells) + 1],
     heap |-> Append(cells, value)]

\* syncMap.LoadOrStore: one atomic sync.Map.LoadOrStore(key, &value). The
\* fresh &value becomes the entry only when the key has none.
LoadOrStore(key, value) ==
    IF usageMap[key] # NoRef
    THEN [ref |-> usageMap[key], map |-> usageMap, heap |-> cells]
    ELSE [ref |-> Len(cells) + 1,
          map |-> [usageMap EXCEPT ![key] = Len(cells) + 1],
          heap |-> Append(cells, value)]

\* atomic.LoadInt64
AtomicLoad(ref) == cells[ref]

\* A plausible bug: a store of the cost in place of the add.
AtomicAddStores(heap, ref, delta) == [heap EXCEPT ![ref] = delta]

\* atomic.AddInt64
AtomicAdd(heap, ref, delta) == [heap EXCEPT ![ref] = heap[ref] + delta]

\* A plausible bug: the rate added to the token count, not multiplied.
CostAddsRate(n) == n + CostPerTokenMicroDollars

\* cost := int64(tokenCount) * CostPerTokenMicroDollars
Cost(n) == n * CostPerTokenMicroDollars

\* A plausible bug: an inclusive comparison against the limit.
UnderLimitInclusive(usage) == usage <= MaxUsageMicroDollars

\* usage < MaxUsageMicroDollars
UnderLimit(usage) == usage < MaxUsageMicroDollars

\* ----------------------------------------------------------- Redis ledger
\* A plausible bug: the api key left out of the Redis key, one counter for all.
getUsageKeyShared(key) == <<"apikey:", ":usage">>

\* getUsageKey: fmt.Sprintf("apikey:%s:usage", apiKey)
getUsageKey(key) == <<"apikey:", key, ":usage">>
RedisKeys == {getUsageKey(k) : k \in Keys}

\* client.Get: [nil, val]
RedisGet(rkey) == [nil |-> redisStore[rkey] = <<>>, val |-> redisStore[rkey]]

\* A plausible bug: SET where INCRBY was meant.
RedisIncrBySets(rkey, delta) == [redisStore EXCEPT ![rkey] = FormatInt(delta)]

\* client.IncrBy: the server parses the stored text (0 when the key is
\* missing), adds, and stores the sum as text.
RedisIncrBy(rkey, delta) ==
    LET cur == IF redisStore[rkey] = <<>> THEN 0 ELSE ParseInt(redisStore[rkey]).n
    IN  [redisStore EXCEPT ![rkey] = FormatInt(cur + delta)]

\* A plausible bug: a failed round trip read as "no spend yet".
RedisCheckLimitFailsOpen(key, up) ==
    IF ~up THEN [allowed |-> TRUE, err |-> FALSE]
    ELSE LET g == RedisGet(getUsageKey(key)) IN
         IF g.nil THEN [allowed |-> TRUE, err |-> FALSE]
         ELSE LET p == ParseInt(g.val) IN
              IF ~p.ok THEN [allowed |-> FALSE, err |-> TRUE]
              ELSE [allowed |-> UnderLimit(p.n), err |-> FALSE]

\* RedisCircuitBreaker.CheckLimit; up = FALSE is a failed round trip.
RedisCheckLimit(key, up) ==
    IF ~up THEN [allowed |-> FALSE, err |-> TRUE]
    ELSE LET g == RedisGet(getUsageKey(key)) IN
         IF g.nil THEN [allowed |-> TRUE, err |-> FALSE]
         ELSE LET p == ParseInt(g.val) IN
              IF ~p.ok THEN [allowed |-> FALSE, err |-> TRUE]
              ELSE [allowed |-> UnderLimit(p.n), err |-> FALSE]

\* RedisCircuitBreaker.GetUsage
RedisGetUsage(key, up) ==
    IF ~up THEN [val |-> 0, err |-> TRUE]
    ELSE LET g == RedisGet(getUsageKey(key)) IN
         IF g.nil THEN [val |-> 0, err |-> FALSE]
         ELSE LET p == ParseInt(g.val) IN
              IF ~p.ok THEN [val |-> 0, err |-> TRUE]
              ELSE [val |-> p.n, err |-> FALSE]

\* RedisCircuitBreaker.AddUsage: [store, err]; a failed round trip leaves the
\* store as it was.
RedisAddUsage(key, n, up) ==
    IF ~up THEN [store |-> redisStore, err |-> TRUE]
    ELSE [store |-> RedisIncrBy(getUsageKey(key), Cost(n)), err |-> FALSE]

\* The spend the ledger holds for a key, read off the backend's state.
Spend(key) ==
    IF backend = "memory"
    THEN IF usageMap[key] = NoRef THEN 0 ELSE cells[usageMap[key]]
    ELSE IF redisStore[getUsageKey(key)] = <<>> THEN 0
         ELSE ParseInt(redisStore[getUsageKey(key)]).n

InitLedger ==
    /\ backend \in {"memory", "redis"}
    /\ usageMap = [k \in Keys |-> NoRef]
    /\ cells = <<>>
    /\ redisStore = [rk \in RedisKeys |-> <<>>]

\* ------------------------------------------------------ the upstream body
\* A body is a sequence of byte strings, each written here by a name:
\*   "LF" "\n"   "CR" "\r"   "data: "   "[DONE]"
\*   "usage:N"   {"usage":{"total_tokens":N}}
\*   "json"      {"choices":[]}          (a JSON object without usage)
\*   "text"      oops                    (not JSON)
\*   "BIG"       1 MiB of the letter x   (no newline in it)
UsageSyms == {"usage:18", "usage:7", "usage:0", "usage:5000000"}
TotalTokens(sym) ==
    CASE sym = "usage:18" -> 18 [] sym = "usage:7" -> 7 [] sym = "usage:0" -> 0
      [] sym = "usage:5000000" -> 5000000

\* bufio.Scanner's buffer limit, scanner.Buffer(buf, 1024*1024)
MaxTokenSize == 1048576

ByteLen(sym) ==
    CASE sym \in {"LF", "CR"} -> 1
      [] sym \in {"data: ", "[DONE]"} -> 6
      [] sym = "usage:18" -> 29
      [] sym \in {"usage:7", "usage:0"} -> 28
      [] sym = "usage:5000000" -> 34
      [] sym = "json" -> 14
      [] sym = "text" -> 4
      [] sym = "BIG" -> 1048576

RECURSIVE Bytes(_)
Bytes(s) == IF s = <<>> THEN 0 ELSE ByteLen(Head(s)) + Bytes(Tail(s))

\* The record contents and terminators the bodies are built from.
RecordKinds ==
    {<<>>, <<"data: ", "usage:18">>, <<"data: ", "usage:7">>, <<"data: ", "usage:0">>,
     <<"data: ", "[DONE]">>, <<"data: ", "json">>, <<"data: ", "text">>, <<"text">>,
     <<"BIG">>}
FullRecords == {k \o t : k \in RecordKinds, t \in {<<"LF">>, <<"CR", "LF">>}}
LastRecords == FullRecords \cup (RecordKinds \ {<<>>})
RECURSIVE Prefixes(_)
Prefixes(n) ==
    IF n = 0 THEN {<<>>} ELSE {r \o p : r \in FullRecords, p \in Prefixes(n - 1)}
Bodies ==
    {<<>>} \cup UNION {{p \o l : p \in Prefixes(i), l \in LastRecords} : i \in 0..(MaxRecords - 1)}

\* ------------------------------------------------------------ bufio.Scanner
\* Index of the first "\n" of s, 0 when there is none (bytes.IndexByte).
RECURSIVE IndexLF(_, _)
IndexLF(s, i) ==
    IF i > Len(s) THEN 0 ELSE IF s[i] = "LF" THEN i ELSE IndexLF(s, i + 1)

\* bufio's dropCR: a trailing "\r" is dropped from the token.
DropCR(data) ==
    IF Len(data) > 0 /\ data[Len(data)] = "CR"
    THEN SubSeq(data, 1, Len(data) - 1) ELSE data

\* A plausible variant: lines read without a ceiling, as a loop over
\* bufio.Reader.ReadBytes would read them.
ScanUnbounded(rest, eofWithLast) ==
    IF rest = <<>> THEN [ok |-> FALSE, token |-> <<>>, advance |-> 0, err |-> FALSE]
    ELSE LET i == IndexLF(rest, 1)
             raw == IF i > 0 THEN SubSeq(rest, 1, i - 1) ELSE rest
         IN  [ok |-> TRUE, token |-> DropCR(raw),
              advance |-> IF i > 0 THEN i ELSE Len(rest), err |-> FALSE]

\* scanner.Scan() with bufio.ScanLines over the unread bytes rest:
\* [ok, token, advance, err]. The token is the bytes up to the next "\n"
\* (or up to the end of the body) without the terminator. The scanner asks
\* the split function before it tests whether its buffer is full, and it
\* tests before it reads: a line that fills the 1 MiB buffer with its "\n"
\* still to come ends the scan with ErrTooLong, and so does a last line of
\* exactly 1 MiB without "\n" when the reader reports io.EOF on a Read of
\* its own; when the Read that delivers the last bytes also returns io.EOF
\* (eofWithLast) that last line is handed out as the final token.
Scan(rest, eofWithLast) ==
    IF rest = <<>> THEN [ok |-> FALSE, token |-> <<>>, advance |-> 0, err |-> FALSE]
    ELSE LET i == IndexLF(rest, 1)
             raw == IF i > 0 THEN SubSeq(rest, 1, i - 1) ELSE rest
         IN  IF \/ Bytes(raw) > MaxTokenSize
                \/ Bytes(raw) = MaxTokenSize /\ ~(i = 0 /\ eofWithLast)
             THEN [ok |-> FALSE, token |-> <<>>, advance |-> 0, err |-> TRUE]
             ELSE [ok |-> TRUE, token |-> DropCR(raw),
                   advance |-> IF i > 0 THEN i ELSE Len(rest), err |-> FALSE]

\* The bytes of the body after its last "\n": the last line when it has no
\* "\n" after it, nothing otherwise.
RECURSIVE LastLine(_)
LastLine(s) ==
    IF IndexLF(s, 1) = 0 THEN s ELSE LastLine(SubSeq(s, IndexLF(s, 1) + 1, Len(s)))

\* How resp.Body reports its end: FALSE, io.EOF comes on a Read of its own;
\* TRUE, with the last bytes. The two differ in what the scanner does only
\* for a body whose last line is exactly 1 MiB long and has no "\n".
BodyEnds(s) == IF Bytes(LastLine(s)) = MaxTokenSize THEN BOOLEAN ELSE {FALSE}

\* ----------------------------------------------------------- encoding/json
\* JSON white space around the value ("\r" is the only one a line can hold).
RECURSIVE TrimSpace(_)
TrimSpace(s) ==
    IF s = <<>> THEN s
    ELSE IF Head(s) = "CR" THEN TrimSpace(Tail(s))
    ELSE IF s[Len(s)] = "CR" THEN TrimSpace(SubSeq(s, 1, Len(s) - 1))
    ELSE s

\* json.Unmarshal(data, &chunk): [err, hasUsage, total]. The data must be
\* one JSON value; chunk.Usage is set when the object has a usage object.
Unmarshal(data) ==
    LET v == TrimSpace(data) IN
    IF Len(v) = 1 /\ v[1] \in UsageSyms
    THEN [err |-> FALSE, hasUsage |-> TRUE, total |-> TotalTokens(v[1])]
    ELSE IF Len(v) = 1 /\ v[1] = "json"
    THEN [err |-> FALSE, hasUsage |-> FALSE, total |-> 0]
    ELSE [err |-> TRUE, hasUsage |-> FALSE, total |-> 0]

\* bytes.HasPrefix / bytes.TrimPrefix for the two prefixes the relay uses
HasPrefix(s, prefix) == Len(s) >= 1 /\ s[1] = prefix
TrimPrefix(s, prefix) == IF HasPrefix(s, prefix) THEN Tail(s) ELSE s

\* A plausible bug: the first usage figure kept, later ones ignored.
InspectKeepsFirst(ln, count) ==
    IF count # 0 THEN count
    ELSE IF HasPrefix(ln, "data: ") /\ ~HasPrefix(TrimPrefix(ln, "data: "), "[DONE]")
            /\ ~Unmarshal(TrimPrefix(ln, "data: ")).err
            /\ Unmarshal(TrimPrefix(ln, "data: ")).hasUsage
    THEN Unmarshal(TrimPrefix(ln, "data: ")).total
    ELSE count

\* A plausible bug: the count assigned from the chunk whatever Unmarshal
\* returned, so that a payload that fails to parse zeroes it.
InspectResetsOnError(ln, count) ==
    IF HasPrefix(ln, "data: ")
    THEN LET data == TrimPrefix(ln, "data: ") IN
         IF HasPrefix(data, "[DONE]") THEN count
         ELSE LET chunk == Unmarshal(data) IN
              IF chunk.err THEN 0
              ELSE IF chunk.hasUsage THEN chunk.total ELSE count
    ELSE count

\* StreamResponse lines 51-70: the tokenCount after looking at one line.
Inspect(ln, count) ==
    IF HasPrefix(ln, "data: ")
    THEN LET data == TrimPrefix(ln, "data: ") IN
         IF HasPrefix(data, "[DONE]") THEN count
         ELSE LET chunk == Unmarshal(data) IN
              IF ~chunk.err /\ chunk.hasUsage THEN chunk.total ELSE count
    ELSE count

\* UsageRecord{APIKey, TokenCount}
UsageRecord(key, count) == [APIKey |-> key, TokenCount |-> count]

\* ------------------------------------------------------------ idle values
IdleChan ==
    /\ usageChan = <<>>
    /\ dropped = 0
    /\ errorRate = [l \in {"redis_write"} |-> 0]

\* http.Header: key -> the values added under it, in order. HeaderKeys are
\* the keys the upstream responses of the model carry.
HeaderKeys == {"Content-Type", "Set-Cookie"}
NoHeader == [k \in HeaderKeys |-> <<>>]

\* resp.StatusCode and resp.Header of the upstream responses relayed: the
\* event stream of a served request, and a refusal with a repeated header.
UpstreamHeads ==
    {[StatusCode |-> 200,
      Header |-> [NoHeader EXCEPT !["Content-Type"] = <<"text/event-stream">>]],
     [StatusCode |-> 429,
      Header |-> [NoHeader EXCEPT !["Content-Type"] = <<"application/json">>,
                                  !["Set-Cookie"] = <<"a=1", "b=2">>]]}

\* respHead before StreamResponse has touched w: no status, no header.
FreshHead(up) ==
    [StatusCode |-> up.StatusCode, Header |-> up.Header,
     wStatus |-> 0, wHeader |-> NoHeader]

\* A plausible bug: Header().Set where Add was meant, the last value kept.
CopyHeaderSets(dst, src) ==
    [k \in HeaderKeys |-> IF src[k] = <<>> THEN dst[k] ELSE <<src[k][Len(src[k])]>>]

\* StreamResponse lines 19-23: w.Header().Add(k, v) for every value of every
\* key of resp.Header.
CopyHeader(dst, src) == [k \in HeaderKeys |-> dst[k] \o src[k]]

IdleRelay ==
    /\ respHead = FreshHead([StatusCode |-> 0, Header |-> NoHeader])
    /\ eofWithData = FALSE
    /\ body = <<>> /\ flusherOK = TRUE /\ apiKey = "" /\ rpc = "idle"
    /\ pos = 0 /\ line = <<>> /\ tokenCount = 0 /\ scanErr = FALSE
    /\ written = <<>> /\ flushed = 0 /\ clientGone = FALSE /\ wfail = FALSE
    /\ afterFail = {} /\ offered = <<>>

IdleCallers ==
    /\ th = [t \in Callers |-> [pc |-> "idle", key |-> "k1", n |-> 0, ref |-> 0]]
    /\ ops = 0 /\ hist = <<>>
    /\ recorded = [k \in Keys |-> 0]
    /\ everDenied = {}

\* ------------------------------------------------- the inbound request
\* An Authorization header is a sequence of its parts; "Bearer " is the seven
\* bytes the handler looks for.
AuthHeaders == {<<>>, <<"Bearer ">>, <<"Basic ", "k1">>, <<"Bearer ", "k1">>}

\* ServeHTTP lines 38-42: len(authHeader) > 7 && authHeader[:7] == "Bearer "
ExtractKey(auth) ==
    IF Len(auth) = 2 /\ auth[1] = "Bearer " THEN auth[2] ELSE ""

\* A request body: its shape, the fields of its object (the value "absent"
\* for a field it does not carry) and whether bytes that are no white space
\* follow the first JSON value.
\*   "empty"    no bytes            "garbage"  bytes that start no JSON value
\*   "object"   a JSON object       "null"     the literal null
\*   "array"    a JSON value that is no object
\*   "unreadable"  the read of the body fails (the caller sends fewer bytes
\*                 than it announced and closes)
FieldNames == {"model", "stream", "stream_options"}
NoFields == [f \in FieldNames |-> "absent"]
Objects ==
    {[NoFields EXCEPT !["model"] = "m", !["stream"] = "false",
                      !["stream_options"] = "include_usage:false"]}
RequestBodies ==
    {[shape |-> "empty", fields |-> NoFields, trailing |-> FALSE],
     [shape |-> "garbage", fields |-> NoFields, trailing |-> FALSE],
     [shape |-> "unreadable", fields |-> NoFields, trailing |-> FALSE]}
    \cup {[shape |-> "object", fields |-> o, trailing |-> FALSE] : o \in Objects}
    \cup {[shape |-> "object", fields |-> [NoFields EXCEPT !["model"] = "m"],
           trailing |-> TRUE]}

\* decoder.Decode(&payload) of lines 65-74 with a map[string]interface{}
\* target: [err, payload]. Decode reads the first JSON value of the input and
\* stops there; null leaves the map nil; a value that is no object does not
\* fit the map.
Decode(b) ==
    CASE b.shape = "garbage" -> [err |-> TRUE, payload |-> NoFields]
      [] b.shape = "array" -> [err |-> TRUE, payload |-> NoFields]
      [] b.shape = "null" -> [err |-> FALSE, payload |-> NoFields]
      [] b.shape = "object" -> [err |-> FALSE, payload |-> b.fields]
      [] b.shape = "empty" -> [err |-> FALSE, payload |-> NoFields]

\* A plausible bug: the caller's own values kept where the body carries them.
InjectStreamOptionsIfAbsent(payload) ==
    [payload EXCEPT !["stream"] = IF @ = "absent" THEN "true" ELSE @,
                    !["stream_options"] = IF @ = "absent" THEN "include_usage:true"
                                          ELSE @]

\* Lines 76-85: the two fields forced on the payload.
InjectStreamOptions(payload) ==
    [payload EXCEPT !["stream"] = "true", !["stream_options"] = "include_usage:true"]

\* Lines 57-91: [status, msg, sent]; status 0 means the handler goes on.
\* io.ReadAll fails: 500; a body that is not empty and does not decode: 400.
\* (json.Marshal of a map that came out of the decoder does not fail.)
Rewrite(b) ==
    IF b.shape = "unreadable"
    THEN [status |-> 500, msg |-> "Error reading request body", sent |-> NoFields]
    ELSE IF b.shape # "empty" /\ Decode(b).err
    THEN [status |-> 400, msg |-> "Invalid JSON payload", sent |-> NoFields]
    ELSE [status |-> 0, msg |-> "", sent |-> InjectStreamOptions(Decode(b).payload)]

\* The in-memory CheckLimit as one read: entries are never removed and the
\* counter is read atomically, so the call returns what Load and
\* atomic.LoadInt64 give at the moment of the second.
MemCheckLimit(key) ==
    LET ld == Load(key) IN
    IF ~ld.ok THEN [allowed |-> TRUE, err |-> FALSE]
    ELSE [allowed |-> UnderLimit(AtomicLoad(ld.ref)), err |-> FALSE]

\* h.circuitBreaker.CheckLimit(apiKey) on the backend main chose.
CheckLimit(key, up) ==
    IF backend = "memory" THEN MemCheckLimit(key) ELSE RedisCheckLimit(key, up)

\* A plausible bug: the boolean looked at before the error.
AdmitStatusAllowedFirst(chk) == IF ~chk.allowed THEN 402 ELSE IF chk.err THEN 500 ELSE 0

\* A plausible bug: the denial not acted on.
AdmitStatusIgnoresDenial(chk) == IF chk.err THEN 500 ELSE 0

\* Lines 46-54: the status the admission check answers with, 0 to go on.
AdmitStatus(chk) == IF chk.err THEN 500 ELSE IF ~chk.allowed THEN 402 ELSE 0

\* Lines 46-54: the text http.Error writes with that status.
AdmitText(chk) ==
    IF chk.err THEN "Error validating rate limit"
    ELSE IF ~chk.allowed THEN "Limit Exceeded: Usage > $10.00" ELSE ""

\* The upstream bodies of Spec that report usage: a stream with a usage
\* record of 18 tokens and one with a usage record of 5,000,000 tokens.
UpBodies ==
    {<<"data: ", "json", "LF", "data: ", "usage:18", "LF", "data: ", "[DONE]", "LF">>,
     <<"data: ", "usage:5000000", "LF", "data: ", "[DONE]", "LF">>}

\* The upstream responses of Spec: those streams with status 200, and a
\* refusal with status 429 and a JSON body that is no event stream.
UpResponses ==
    {[StatusCode |-> 200, Body |-> b] : b \in UpBodies}
    \cup {[StatusCode |-> 429, Body |-> <<"json">>]}

\* The loop of StreamResponse lines 43-71 run to its end: the tokenCount.
RECURSIVE ScanAll(_, _, _)
ScanAll(rest, count, eofWithLast) ==
    LET r == Scan(rest, eofWithLast) IN
    IF ~r.ok THEN count
    ELSE ScanAll(SubSeq(rest, r.advance + 1, Len(rest)), Inspect(r.token, count),
                 eofWithLast)

IdleRequest ==
    [pc |-> "idle", key |-> "", bodyIn |-> [shape |-> "empty", fields |-> NoFields,
                                            trailing |-> FALSE],
     checked |-> FALSE, chk |-> [allowed |-> FALSE, err |-> FALSE],
     status |-> 0, msg |-> "", upstream |-> FALSE, sent |-> NoFields,
     respBody |-> <<>>, offers |-> 0]

Handlers == {"h1", "h2"}

IdleGateway ==
    /\ req = [h \in Handlers |-> IdleRequest]
    /\ started = 0
    /\ worker = [pc |-> "recv", rec |-> [APIKey |-> "", TokenCount |-> 0], ref |-> NoRef]
    /\ totalTokens = [k \in Keys |-> 0]
    /\ main = "serving"
    /\ chanClosed = FALSE
    /\ panics = 0

\* ------------------------------------------------- SpecLedger: the callers
\* A caller is idle or is inside a call of the in-memory backend between its
\* two atomic operations:
\*   "chk"  CheckLimit after usageMap.Load, before atomic.LoadInt64
\*   "get"  GetUsage   after usageMap.Load, before atomic.LoadInt64
\*   "add"  AddUsage   after usageMap.LoadOrStore, before atomic.AddInt64
\* A Redis call is one round trip and takes one step.
IdleCaller == [pc |-> "idle", key |-> "k1", n |-> 0, ref |-> NoRef]

\* hist: the calls in the order they took effect, the last three kept, each
\* with what it returned. spend is the key's spend in the ledger at the moment
\* the call took effect, up is whether the backend answered, overlap whether
\* another caller was inside AddUsage on the same key at that moment.
Push(h, e) == IF Len(h) < 3 THEN Append(h, e) ELSE Append(Tail(h), e)
Entry(op, key, n, allowed, val, err, up, spend, overlap) ==
    [op |-> op, key |-> key, n |-> n, allowed |-> allowed, val |-> val,
     err |-> err, up |-> up, spend |-> spend, overlap |-> overlap,
     wasDenied |-> key \in everDenied]

\* everDenied after a CheckLimit call returned (allowed, err).
Denied(key, allowed, err) ==
    IF ~allowed /\ ~err THEN everDenied \cup {key} ELSE everDenied

CanCall(t) == th[t].pc = "idle" /\ ops < MaxOps

\* What a ledger call leaves alone.
LedgerFrame == UNCHANGED <<chanVars, relayVars, gwVars>>

\* MemoryCircuitBreaker.CheckLimit, lines 39-43: the Load.
CheckLimitLoad(t, key) ==
    /\ backend = "memory" /\ CanCall(t)
    /\ ops' = ops + 1
    /\ LET ld == Load(key) IN
       IF ~ld.ok
       THEN /\ th' = th
            /\ hist' = Push(hist, Entry("CheckLimit", key, 0, TRUE, 0, FALSE,
                                        TRUE, Spend(key), FALSE))
       ELSE /\ th' = [th EXCEPT ![t] = [pc |-> "chk", key |-> key, n |-> 0, ref |-> ld.ref]]
            /\ hist' = hist
    /\ UNCHANGED <<ledgerVars, recorded, everDenied>>
    /\ LedgerFrame

\* MemoryCircuitBreaker.CheckLimit, lines 45-46.
CheckLimitRead(t) ==
    /\ th[t].pc = "chk"
    /\ LET usage == AtomicLoad(th[t].ref) IN
       hist' = Push(hist, Entry("CheckLimit", th[t].key, 0, UnderLimit(usage), 0,
                                FALSE, TRUE, Spend(th[t].key), FALSE))
    /\ th' = [th EXCEPT ![t] = IdleCaller]
    /\ everDenied' = Denied(th[t].key, UnderLimit(AtomicLoad(th[t].ref)), FALSE)
    /\ UNCHANGED <<ledgerVars, ops, recorded>>
    /\ LedgerFrame

\* MemoryCircuitBreaker.GetUsage, lines 64-67: the Load.
GetUsageLoad(t, key) ==
    /\ backend = "memory" /\ CanCall(t)
    /\ ops' = ops + 1
    /\ LET ld == Load(key) IN
       IF ~ld.ok
       THEN /\ th' = th
            /\ hist' = Push(hist, Entry("GetUsage", key, 0, FALSE, 0, FALSE,
                                        TRUE, Spend(key), FALSE))
       ELSE /\ th' = [th EXCEPT ![t] = [pc |-> "get", key |-> key, n |-> 0, ref |-> ld.ref]]
            /\ hist' = hist
    /\ UNCHANGED <<ledgerVars, recorded, everDenied>>
    /\ LedgerFrame

\* MemoryCircuitBreaker.GetUsage, line 68.
GetUsageRead(t) ==
    /\ th[t].pc = "get"
    /\ LET usage == AtomicLoad(th[t].ref) IN
       hist' = Push(hist, Entry("GetUsage", th[t].key, 0, FALSE, usage, FALSE,
                                TRUE, Spend(th[t].key), FALSE))
    /\ th' = [th EXCEPT ![t] = IdleCaller]
    /\ UNCHANGED <<ledgerVars, ops, recorded, everDenied>>
    /\ LedgerFrame

\* MemoryCircuitBreaker.AddUsage, lines 51-54: the LoadOrStore.
AddUsageLoadOrStore(t, key, n) ==
    /\ backend = "memory" /\ CanCall(t)
    /\ ops' = ops + 1
    /\ LET r == LoadOrStore(key, 0) IN
       /\ usageMap' = r.map
       /\ cells' = r.heap
       /\ th' = [th EXCEPT ![t] = [pc |-> "add", key |-> key, n |-> n, ref |-> r.ref]]
    /\ recorded' = [recorded EXCEPT ![key] = @ + n]
    /\ UNCHANGED <<backend, redisStore, hist, everDenied>>
    /\ LedgerFrame

\* MemoryCircuitBreaker.AddUsage, lines 51 and 57-59: the cost and the atomic add.
AddUsageAtomicAdd(t) ==
    /\ th[t].pc = "add"
    /\ cells' = AtomicAdd(cells, th[t].ref, Cost(th[t].n))
    /\ hist' = Push(hist, Entry("AddUsage", th[t].key, th[t].n, FALSE, 0, FALSE, TRUE,
                                cells'[usageMap[th[t].key]],
                                \E u \in Callers \ {t} :
                                    th[u].pc = "add" /\ th[u].key = th[t].key))
    /\ th' = [th EXCEPT ![t] = IdleCaller]
    /\ UNCHANGED <<backend, usageMap, redisStore, ops, recorded, everDenied>>
    /\ LedgerFrame

\* RedisCircuitBreaker.CheckLimit
CheckLimitRedis(t, key, up) ==
    /\ backend = "redis" /\ CanCall(t)
    /\ ops' = ops + 1
    /\ LET r == RedisCheckLimit(key, up) IN
       hist' = Push(hist, Entry("CheckLimit", key, 0, r.allowed, 0, r.err, up,
                                Spend(key), FALSE))
    /\ everDenied' = Denied(key, RedisCheckLimit(key, up).allowed, RedisCheckLimit(key, up).err)
    /\ UNCHANGED <<ledgerVars, th, recorded>>
    /\ LedgerFrame

\* RedisCircuitBreaker.GetUsage
GetUsageRedis(t, key, up) ==
    /\ backend = "redis" /\ CanCall(t)
    /\ ops' = ops + 1
    /\ LET r == RedisGetUsage(key, up) IN
       hist' = Push(hist, Entry("GetUsage", key, 0, FALSE, r.val, r.err, up,
                                Spend(key), FALSE))
    /\ UNCHANGED <<ledgerVars, th, recorded, everDenied>>
    /\ LedgerFrame

\* RedisCircuitBreaker.AddUsage
AddUsageRedis(t, key, n, up) ==
    /\ backend = "redis" /\ CanCall(t)
    /\ ops' = ops + 1
    /\ LET r == RedisAddUsage(key, n, up) IN
       /\ redisStore' = r.store
       /\ hist' = Push(hist, Entry("AddUsage", key, n, FALSE, 0, r.err, up,
                                   IF r.store[getUsageKey(key)] = <<>> THEN 0
                                   ELSE ParseInt(r.store[getUsageKey(key)]).n,
                                   FALSE))
       /\ recorded' = IF r.err THEN recorded ELSE [recorded EXCEPT ![key] = @ + n]
    /\ UNCHANGED <<backend, usageMap, cells, th, everDenied>>
    /\ LedgerFrame

InitL == InitLedger /\ IdleCallers /\ IdleChan /\ IdleRelay /\ IdleGateway

NextL ==
    \/ \E t \in Callers, key \in Keys : CheckLimitLoad(t, key)
    \/ \E t \in Callers : CheckLimitRead(t)
    \/ \E t \in Callers, key \in Keys : GetUsageLoad(t, key)
    \/ \E t \in Callers : GetUsageRead(t)
    \/ \E t \in Callers, key \in Keys, n \in TokenCounts : AddUsageLoadOrStore(t, key, n)
    \/ \E t \in Callers : AddUsageAtomicAdd(t)
    \/ \E t \in Callers, key \in Keys, up \in BOOLEAN : CheckLimitRedis(t, key, up)
    \/ \E t \in Callers, key \in Keys, up \in BOOLEAN : GetUsageRedis(t, key, up)
    \/ \E t \in Callers, key \in Keys, n \in TokenCounts, up \in BOOLEAN :
           AddUsageRedis(t, key, n, up)

SpecLedger == InitL /\ [][NextL]_vars

\* ------------------------------------------- SpecRelay: StreamResponse
\* One call StreamResponse(w, resp, apiKey, usageChan). rpc:
\*   "start"     before the headers are copied
\*   "scan"      at the loop head, scanner.Scan() next
\*   "write"     w.Write(line) next        "write_nl"  w.Write("\n") next
\*   "flush"     flusher.Flush() next      "inspect"   lines 51-70 next
\*   "dispatch"  the loop is over, lines 73-87 next
\*   "done"      returned
Rest == SubSeq(body, pos + 1, Len(body))

\* What StreamResponse leaves alone.
RelayFrame == UNCHANGED <<ledgerVars, callerVars, gwVars>>

\* A plausible variant: no early return for a sink that is not a Flusher,
\* the loop entered whatever the sink.
CopyHeadersThenLoop ==
    /\ rpc = "start"
    /\ respHead' = [respHead EXCEPT !.wHeader = CopyHeader(@, respHead.Header),
                                    !.wStatus = respHead.StatusCode]
    /\ rpc' = "scan"
    /\ UNCHANGED <<eofWithData, body, flusherOK, apiKey, pos, line, tokenCount, scanErr,
                   written, flushed, clientGone, wfail, afterFail, offered, chanVars>>
    /\ RelayFrame

\* Lines 18-31: the headers copied, w.WriteHeader(resp.StatusCode), then the
\* Flusher check.
CopyHeaders ==
    /\ rpc = "start"
    /\ respHead' = [respHead EXCEPT !.wHeader = CopyHeader(@, respHead.Header),
                                    !.wStatus = respHead.StatusCode]
    /\ rpc' = IF flusherOK THEN "scan" ELSE "done"
    /\ UNCHANGED <<eofWithData, body, flusherOK, apiKey, pos, line, tokenCount, scanErr,
                   written, flushed, clientGone, wfail, afterFail, offered, chanVars>>
    /\ RelayFrame

\* Line 43: scanner.Scan(), and line 44 when it returned true.
ScanNext ==
    /\ rpc = "scan"
    /\ LET r == Scan(Rest, eofWithData) IN
       /\ rpc' = IF r.ok THEN "write" ELSE "dispatch"
       /\ line' = r.token
       /\ pos' = pos + r.advance
       /\ scanErr' = r.err
       /\ afterFail' = IF wfail /\ r.ok THEN afterFail \cup {"read"} ELSE afterFail
    /\ UNCHANGED <<respHead, eofWithData, body, flusherOK, apiKey, tokenCount, written, flushed, clientGone,
                   wfail, offered, chanVars>>
    /\ RelayFrame

\* w.Write(p): the bytes reach the response unless the caller is gone, in
\* which case Write returns an error; the loop ignores the result.
Write(p) ==
    /\ written' = IF clientGone THEN written ELSE written \o p
    /\ wfail' = (wfail \/ clientGone)

\* Line 47. afterFail notes the write of a record begun after an earlier
\* write had failed.
WriteLine ==
    /\ rpc = "write"
    /\ Write(line)
    /\ afterFail' = IF wfail THEN afterFail \cup {"write"} ELSE afterFail
    /\ rpc' = "write_nl"
    /\ UNCHANGED <<respHead, eofWithData, body, flusherOK, apiKey, pos, line, tokenCount, scanErr, flushed,
                   clientGone, offered, chanVars>>
    /\ RelayFrame

\* Line 48
WriteNewline ==
    /\ rpc = "write_nl"
    /\ Write(<<"LF">>)
    /\ rpc' = "flush"
    /\ UNCHANGED <<respHead, eofWithData, body, flusherOK, apiKey, pos, line, tokenCount, scanErr, flushed,
                   clientGone, afterFail, offered, chanVars>>
    /\ RelayFrame

\* A plausible bug: the flush left to the end of the stream.
FlushSkipped ==
    /\ rpc = "flush"
    /\ flushed' = flushed
    /\ rpc' = "inspect"
    /\ UNCHANGED <<respHead, eofWithData, body, flusherOK, apiKey, pos, line, tokenCount, scanErr, written,
                   clientGone, wfail, afterFail, offered, chanVars>>
    /\ RelayFrame

\* Line 49
Flush ==
    /\ rpc = "flush"
    /\ flushed' = IF clientGone THEN flushed ELSE Len(written)
    /\ rpc' = "inspect"
    /\ UNCHANGED <<respHead, eofWithData, body, flusherOK, apiKey, pos, line, tokenCount, scanErr, written,
                   clientGone, wfail, afterFail, offered, chanVars>>
    /\ RelayFrame

\* Lines 51-70
InspectLine ==
    /\ rpc = "inspect"
    /\ tokenCount' = Inspect(line, tokenCount)
    /\ rpc' = "scan"
    /\ UNCHANGED <<respHead, eofWithData, body, flusherOK, apiKey, pos, line, scanErr, written, flushed,
                   clientGone, wfail, afterFail, offered, chanVars>>
    /\ RelayFrame

\* select { case usageChan <- rec: default: }: the send goes through when
\* the buffer has room, else the default branch runs.
TrySend(ch, rec) ==
    IF Len(ch) < ChanCap THEN [sent |-> TRUE, ch |-> Append(ch, rec)]
    ELSE [sent |-> FALSE, ch |-> ch]

\* A plausible bug: the guard without the tokenCount test.
ShouldDispatchAnyCount(count, key) == key # ""

\* Another design: usage recorded only while the key is under the limit.
ShouldDispatchUnderLimit(count, key) ==
    count > 0 /\ key # "" /\ UnderLimit(Spend(key))

\* A plausible bug: the record sent whoever the caller is.
ShouldDispatchAnyKey(count, key) == count > 0

\* Line 79 (usageChan is never nil: main and the tests pass a channel).
ShouldDispatch(count, key) == count > 0 /\ key # ""

\* Lines 73-87
Dispatch ==
    /\ rpc = "dispatch"
    /\ IF ShouldDispatch(tokenCount, apiKey)
       THEN LET r == TrySend(usageChan, UsageRecord(apiKey, tokenCount)) IN
            /\ usageChan' = r.ch
            /\ dropped' = IF r.sent THEN dropped ELSE dropped + 1
            /\ offered' = Append(offered, UsageRecord(apiKey, tokenCount))
       ELSE UNCHANGED <<usageChan, dropped, offered>>
    /\ rpc' = "done"
    /\ UNCHANGED <<respHead, eofWithData, body, flusherOK, apiKey, pos, line, tokenCount, scanErr, written,
                   flushed, clientGone, wfail, afterFail, errorRate>>
    /\ RelayFrame

\* The caller closes its connection while the relay is running.
ClientDisconnect ==
    /\ rpc \in {"scan", "write", "write_nl", "flush", "inspect"}
    /\ ~clientGone
    /\ clientGone' = TRUE
    /\ UNCHANGED <<respHead, eofWithData, body, flusherOK, apiKey, rpc, pos, line, tokenCount, scanErr,
                   written, flushed, wfail, afterFail, offered, chanVars>>
    /\ RelayFrame

RECURSIVE Fill(_)
Fill(n) == IF n = 0 THEN <<>> ELSE Append(Fill(n - 1), UsageRecord("k2", 7))

InitR ==
    /\ backend = "memory"
    /\ usageMap = [k \in Keys |-> NoRef] /\ cells = <<>>
    /\ redisStore = [rk \in RedisKeys |-> <<>>]
    /\ IdleCallers
    /\ usageChan \in {Fill(n) : n \in 0..ChanCap}
    /\ dropped = 0
    /\ errorRate = [l \in {"redis_write"} |-> 0]
    /\ respHead \in {FreshHead(up) : up \in UpstreamHeads}
    /\ body \in Bodies
    /\ eofWithData \in BodyEnds(body)
    /\ flusherOK \in BOOLEAN
    /\ apiKey \in {"", "k1"}
    /\ rpc = "start"
    /\ pos = 0 /\ line = <<>> /\ tokenCount = 0 /\ scanErr = FALSE
    /\ written = <<>> /\ flushed = 0 /\ clientGone = FALSE /\ wfail = FALSE
    /\ afterFail = {} /\ offered = <<>>
    /\ IdleGateway

NextR ==
    \/ CopyHeaders
    \/ ScanNext
    \/ WriteLine
    \/ WriteNewline
    \/ Flush
    \/ InspectLine
    \/ Dispatch
    \/ ClientDisconnect

SpecRelay == InitR /\ [][NextR]_vars

\* ------------------------------------------------------ Spec: the gateway
\* Handler goroutines run ProxyHandler.ServeHTTP, one request each at a time.
\* req[h].pc:
\*   "idle"      no request             "admit"     lines 37-55 next
\*   "rewrite"   lines 57-91 next       "upstream"  lines 93-118 next
\*   "relay"     inside StreamResponse, status and headers written, the
\*               loop of lines 43-71 next
\*   "done"      ServeHTTP has returned
\* The usage processor (main lines 82-92) is at "recv" (waiting on the
\* channel), "add" (AddUsage next), "add2" (in-memory AddUsage between
\* LoadOrStore and the atomic add) or "exited" (its range loop ended).
\* main is "serving", "shutting" (inside srv.Shutdown), "closing"
\* (Shutdown returned), "closed" (close(usageChan) ran) or "exited".
GatewayFrame == UNCHANGED <<callerVars, relayVars>>
Running == main # "exited"
Active(h) == req[h].pc \notin {"idle", "done"}

\* net/http hands an accepted request to a handler goroutine; key is what
\* lines 38-42 take from its Authorization header.
StartRequest(h, key, b) ==
    /\ Running /\ main = "serving"
    /\ ~Active(h) /\ started < MaxRequests
    /\ started' = started + 1
    /\ req' = [req EXCEPT ![h] = [IdleRequest EXCEPT !.pc = "admit",
                                     !.key = key, !.bodyIn = b]]
    /\ UNCHANGED <<ledgerVars, chanVars, worker, totalTokens, main, chanClosed, panics>>
    /\ GatewayFrame

\* Lines 44-55: the admission check.
Admit(h, up) ==
    /\ Running /\ req[h].pc = "admit"
    /\ IF req[h].key # ""
       THEN LET chk == CheckLimit(req[h].key, up)
                st == AdmitStatus(chk)
            IN  req' = [req EXCEPT ![h].checked = TRUE, ![h].chk = chk,
                                   ![h].status = st, ![h].msg = AdmitText(chk),
                                   ![h].pc = IF st = 0 THEN "rewrite" ELSE "done"]
       ELSE req' = [req EXCEPT ![h].pc = "rewrite"]
    /\ UNCHANGED <<ledgerVars, chanVars, started, worker, totalTokens, main,
                   chanClosed, panics>>
    /\ GatewayFrame

\* Lines 57-91: read the body, decode it, force the two fields, marshal.
RewriteBody(h) ==
    /\ Running /\ req[h].pc = "rewrite"
    /\ LET r == Rewrite(req[h].bodyIn) IN
       req' = [req EXCEPT ![h].status = r.status, ![h].msg = r.msg,
                          ![h].sent = r.sent,
                          ![h].pc = IF r.status = 0 THEN "upstream" ELSE "done"]
    /\ UNCHANGED <<ledgerVars, chanVars, started, worker, totalTokens, main,
                   chanClosed, panics>>
    /\ GatewayFrame

\* Lines 93-121: the outbound request and client.Do; the upstream cannot
\* be reached (502) or answers, and then StreamResponse is entered and
\* passes the upstream status to the caller with
\* w.WriteHeader(resp.StatusCode) before it reads the body (the server's
\* ResponseWriter is an http.Flusher, so the call goes on to the loop).
\* (http.NewRequest does not fail for the method of a request the server
\* accepted and a URL main parsed.)
CallUpstream(h, reachable, up) ==
    /\ Running /\ req[h].pc = "upstream"
    /\ req' = [req EXCEPT ![h].upstream = TRUE,
                          ![h].status = IF reachable THEN up.StatusCode ELSE 502,
                          ![h].msg = IF reachable THEN "" ELSE "Bad Gateway",
                          ![h].respBody = IF reachable THEN up.Body ELSE <<>>,
                          ![h].pc = IF reachable THEN "relay" ELSE "done"]
    /\ UNCHANGED <<ledgerVars, chanVars, started, worker, totalTokens, main,
                   chanClosed, panics>>
    /\ GatewayFrame

\* StreamResponse lines 33-87, with the status already with the caller: the
\* loop runs over the body, which touches nothing the other goroutines see
\* (they can run before it, while the handler waits for the upstream or
\* the caller), and lines 77-87 offer the record; a
\* send on the channel main has closed panics. The deferred
\* resp.Body.Close() of ServeHTTP line 118 runs as the handler returns.
StreamLoop(h) ==
    /\ Running /\ req[h].pc = "relay"
    /\ LET count == ScanAll(req[h].respBody, 0, eofWithData)
           rec == UsageRecord(req[h].key, count)
       IN  IF ShouldDispatch(count, req[h].key)
           THEN IF chanClosed
                THEN /\ panics' = panics + 1
                     /\ UNCHANGED <<usageChan, dropped>>
                ELSE /\ usageChan' = TrySend(usageChan, rec).ch
                     /\ dropped' = IF TrySend(usageChan, rec).sent THEN dropped
                                   ELSE dropped + 1
                     /\ panics' = panics
           ELSE UNCHANGED <<usageChan, dropped, panics>>
    /\ req' = [req EXCEPT ![h].pc = "done", ![h].respBody = <<>>,
                          ![h].offers = IF ShouldDispatch(
                                               ScanAll(req[h].respBody, 0, eofWithData),
                                               req[h].key)
                                        THEN 1 ELSE 0]
    /\ UNCHANGED <<ledgerVars, errorRate, started, worker, totalTokens, main, chanClosed>>
    /\ GatewayFrame

\* Line 83: the range loop takes the next record, or ends when the channel
\* is closed and empty.
WorkerReceive ==
    /\ Running /\ worker.pc = "recv"
    /\ \/ /\ usageChan # <<>>
          /\ worker' = [worker EXCEPT !.pc = "add", !.rec = Head(usageChan)]
          /\ usageChan' = Tail(usageChan)
       \/ /\ usageChan = <<>> /\ chanClosed
          /\ worker' = [worker EXCEPT !.pc = "exited"]
          /\ usageChan' = usageChan
    /\ UNCHANGED <<ledgerVars, dropped, errorRate, req, started, totalTokens, main,
                   chanClosed, panics>>
    /\ GatewayFrame

\* Line 84 on the in-memory backend: AddUsage up to its LoadOrStore.
WorkerLoadOrStore ==
    /\ Running /\ worker.pc = "add" /\ backend = "memory"
    /\ LET r == LoadOrStore(worker.rec.APIKey, 0) IN
       /\ usageMap' = r.map
       /\ cells' = r.heap
       /\ worker' = [worker EXCEPT !.pc = "add2", !.ref = r.ref]
    /\ UNCHANGED <<backend, redisStore, chanVars, req, started, totalTokens, main,
                   chanClosed, panics>>
    /\ GatewayFrame

\* Lines 84-90 on the in-memory backend: the atomic add, then the metric.
WorkerAtomicAdd ==
    /\ Running /\ worker.pc = "add2"
    /\ cells' = AtomicAdd(cells, worker.ref, Cost(worker.rec.TokenCount))
    /\ totalTokens' = [totalTokens EXCEPT ![worker.rec.APIKey] = @ + worker.rec.TokenCount]
    /\ worker' = [worker EXCEPT !.pc = "recv", !.ref = NoRef]
    /\ UNCHANGED <<backend, usageMap, redisStore, chanVars, req, started, main,
                   chanClosed, panics>>
    /\ GatewayFrame

\* Lines 84-90 on the Redis backend: AddUsage, then the metric of its outcome.
WorkerAddUsageRedis(up) ==
    /\ Running /\ worker.pc = "add" /\ backend = "redis"
    /\ LET r == RedisAddUsage(worker.rec.APIKey, worker.rec.TokenCount, up) IN
       /\ redisStore' = r.store
       /\ errorRate' = IF r.err THEN [errorRate EXCEPT !["redis_write"] = @ + 1]
                       ELSE errorRate
       /\ totalTokens' = IF r.err THEN totalTokens
                         ELSE [totalTokens EXCEPT ![worker.rec.APIKey] =
                                                      @ + worker.rec.TokenCount]
    /\ worker' = [worker EXCEPT !.pc = "recv"]
    /\ UNCHANGED <<backend, usageMap, cells, usageChan, dropped, req, started, main,
                   chanClosed, panics>>
    /\ GatewayFrame

\* Lines 163-171: the signal arrives and main calls srv.Shutdown.
Signal ==
    /\ main = "serving"
    /\ main' = "shutting"
    /\ UNCHANGED <<ledgerVars, chanVars, req, started, worker, totalTokens, chanClosed,
                   panics>>
    /\ GatewayFrame

\* srv.Shutdown returns nil: no handler is running any more.
ShutdownReturns ==
    /\ main = "shutting"
    /\ \A h \in Handlers : ~Active(h)
    /\ main' = "closing"
    /\ UNCHANGED <<ledgerVars, chanVars, req, started, worker, totalTokens, chanClosed,
                   panics>>
    /\ GatewayFrame

\* srv.Shutdown returns the context's error: the five seconds ran out while
\* a handler was still running (lines 168-173).
ShutdownTimesOut ==
    /\ main = "shutting"
    /\ \E h \in Handlers : Active(h)
    /\ main' = "closing"
    /\ UNCHANGED <<ledgerVars, chanVars, req, started, worker, totalTokens, chanClosed,
                   panics>>
    /\ GatewayFrame

\* Line 175
CloseChan ==
    /\ main = "closing"
    /\ chanClosed' = TRUE
    /\ main' = "closed"
    /\ UNCHANGED <<ledgerVars, chanVars, req, started, worker, totalTokens, panics>>
    /\ GatewayFrame

\* Lines 176-177: main returns and the process ends with it.
Exit ==
    /\ main = "closed"
    /\ main' = "exited"
    /\ UNCHANGED <<ledgerVars, chanVars, req, started, worker, totalTokens, chanClosed,
                   panics>>
    /\ GatewayFrame

Init == InitLedger /\ IdleCallers /\ IdleChan /\ IdleRelay /\ IdleGateway

Next ==
    \/ \E h \in Handlers, key \in {ExtractKey(auth) : auth \in AuthHeaders},
          b \in RequestBodies : StartRequest(h, key, b)
    \/ \E h \in Handlers, up \in BOOLEAN : Admit(h, up)
    \/ \E h \in Handlers : RewriteBody(h)
    \/ \E h \in Handlers, reachable \in BOOLEAN, up \in UpResponses :
           CallUpstream(h, reachable, up)
    \/ \E h \in Handlers : StreamLoop(h)
    \/ WorkerReceive
    \/ WorkerLoadOrStore
    \/ WorkerAtomicAdd
    \/ \E up \in BOOLEAN : WorkerAddUsageRedis(up)
    \/ Signal
    \/ ShutdownReturns
    \/ ShutdownTimesOut
    \/ CloseChan
    \/ Exit

Spec == Init /\ [][Next]_vars

\* ------------------------------------------------ claims about the ledger
HistIdx == 1..Len(hist)
InAdd(key) == {t \in Callers : th[t].pc = "add" /\ th[t].key = key}

\* C1: a CheckLimit call the backend answered returns allowed (true, no
\* error) exactly when the key's spend at that moment is strictly below
\* MaxUsageMicroDollars; in particular a key never written (spend 0) is allowed.
C1_CheckLimitIffUnderLimit ==
    \A i \in HistIdx :
        (hist[i].op = "CheckLimit" /\ hist[i].up) =>
            ((hist[i].allowed /\ ~hist[i].err) <=> hist[i].spend < MaxUsageMicroDollars)

\* C1 witness: a never-written key was allowed and a key at or over the limit
\* was denied.
C1_Witness ==
    \E i, j \in HistIdx :
        /\ hist[i].op = "CheckLimit" /\ hist[i].allowed /\ hist[i].spend = 0
        /\ recorded[hist[i].key] = 0
        /\ hist[j].op = "CheckLimit" /\ ~hist[j].allowed /\ ~hist[j].err
        /\ hist[j].spend >= MaxUsageMicroDollars

\* C2: GetUsage, AddUsage(key, n), GetUsage on one key with no call taking
\* effect in between: the second GetUsage returns exactly
\* n * CostPerTokenMicroDollars more than the first.
C2_AddThenGetReflectsCost ==
    (/\ Len(hist) = 3
     /\ hist[1].op = "GetUsage" /\ ~hist[1].err
     /\ hist[2].op = "AddUsage" /\ ~hist[2].err /\ hist[2].key = hist[1].key
     /\ hist[3].op = "GetUsage" /\ ~hist[3].err /\ hist[3].key = hist[1].key)
    => hist[3].val = hist[1].val + hist[2].n * CostPerTokenMicroDollars

\* C2 witness: such a triple on a key that already had spend, with n > 0.
C2_Witness ==
    /\ Len(hist) = 3
    /\ hist[1].op = "GetUsage" /\ ~hist[1].err /\ hist[1].val > 0
    /\ hist[2].op = "AddUsage" /\ ~hist[2].err /\ hist[2].key = hist[1].key
    /\ hist[2].n = 5000000
    /\ hist[3].op = "GetUsage" /\ ~hist[3].err /\ hist[3].key = hist[1].key
    /\ hist[3].val = hist[1].val + 10000000

\* C3: whenever no AddUsage call on a key is in progress, the key's spend is
\* the sum of the costs of all AddUsage calls made on it, and the in-memory
\* map holds one counter per key written: no counter is created twice.
C3_ConcurrentAddsSumExactly ==
    /\ \A key \in Keys :
           InAdd(key) = {} => Spend(key) = recorded[key] * CostPerTokenMicroDollars
    /\ Len(cells) = Cardinality({key \in Keys : usageMap[key] # NoRef})
    /\ \A k1, k2 \in Keys :
           (usageMap[k1] # NoRef /\ usageMap[k1] = usageMap[k2]) => k1 = k2

\* C3 witness: two AddUsage calls were the first two references to a key, one
\* added while the other was between its LoadOrStore and its add, both are
\* done and the spend is the sum of both costs.
C3_Witness ==
    /\ ops = 2 /\ Len(hist) = 2
    /\ hist[1].op = "AddUsage" /\ hist[2].op = "AddUsage"
    /\ hist[1].key = hist[2].key
    /\ hist[1].overlap
    /\ hist[1].n > 0 /\ hist[2].n > 0
    /\ InAdd(hist[1].key) = {}
    /\ Spend(hist[1].key) = (hist[1].n + hist[2].n) * CostPerTokenMicroDollars

\* C4: with cost 2 per token and limit 10,000,000, a fresh key is allowed;
\* once 5,000,000 tokens are recorded the spend is exactly 10,000,000 and
\* CheckLimit denies; and a key CheckLimit has denied is denied by every
\* later CheckLimit call the backend answers.
C4_LimitBoundaryAndDeniedForGood ==
    /\ CostPerTokenMicroDollars = 2 /\ MaxUsageMicroDollars = 10000000
    /\ \A key \in Keys :
           (InAdd(key) = {} /\ recorded[key] = 5000000) => Spend(key) = 10000000
    /\ \A i \in HistIdx :
           (hist[i].op = "CheckLimit" /\ hist[i].up) =>
               /\ hist[i].spend = 0 => (hist[i].allowed /\ ~hist[i].err)
               /\ hist[i].spend = 10000000 => (~hist[i].allowed /\ ~hist[i].err)
               /\ hist[i].wasDenied => (~hist[i].allowed /\ ~hist[i].err)

\* C4 witness: a key was denied at exactly 10,000,000, one more token was
\* recorded, and the next CheckLimit denied it again.
C4_Witness ==
    /\ Len(hist) = 3
    /\ hist[1].op = "CheckLimit" /\ ~hist[1].allowed /\ ~hist[1].err
    /\ hist[1].spend = 10000000 /\ recorded[hist[1].key] = 5000001
    /\ hist[2].op = "AddUsage" /\ hist[2].key = hist[1].key /\ hist[2].n = 1
    /\ ~hist[2].err
    /\ hist[3].op = "CheckLimit" /\ hist[3].key = hist[1].key
    /\ hist[3].wasDenied /\ ~hist[3].allowed /\ hist[3].spend = 10000002

\* ------------------------------------------------- claims about the relay
\* The records of an upstream body: the byte runs its "\n"s delimit.
RECURSIVE Records(_)
Records(s) ==
    IF s = <<>> THEN <<>>
    ELSE IF \E i \in 1..Len(s) : s[i] = "LF"
    THEN LET i == CHOOSE j \in 1..Len(s) :
                      s[j] = "LF" /\ \A m \in 1..(j - 1) : s[m] # "LF"
         IN  <<SubSeq(s, 1, i - 1)>> \o Records(SubSeq(s, i + 1, Len(s)))
    ELSE <<s>>

\* A usage-bearing record: the data prefix and a JSON object with a usage
\* object, with or without a "\r" before the "\n".
IsUsageRecord(rec) ==
    /\ Len(rec) \in {2, 3}
    /\ rec[1] = "data: " /\ rec[2] \in UsageSyms
    /\ Len(rec) = 3 => rec[3] = "CR"

\* The total-token counts of the usage-bearing records, in stream order.
RECURSIVE UsageFigures(_)
UsageFigures(recs) ==
    IF recs = <<>> THEN <<>>
    ELSE IF IsUsageRecord(Head(recs))
    THEN <<TotalTokens(Head(recs)[2])>> \o UsageFigures(Tail(recs))
    ELSE UsageFigures(Tail(recs))

\* The last record of the body has no "\n" after it.
Open(s) == s # <<>> /\ s[Len(s)] # "LF"

\* The record does not fit the scanner's buffer: it is longer than 1 MiB,
\* or exactly 1 MiB long unless it is the body's last record, has no "\n"
\* after it, and the end of the body is reported together with it.
TooLong(rec, final, eofWithLast) ==
    \/ Bytes(rec) > MaxTokenSize
    \/ Bytes(rec) = MaxTokenSize /\ ~(final /\ eofWithLast)

\* The records before the first one that does not fit the buffer; open
\* says whether the last record of recs has no "\n" after it.
RECURSIVE UnderCeiling(_, _, _)
UnderCeiling(recs, open, eofWithLast) ==
    IF recs = <<>> \/ TooLong(Head(recs), Len(recs) = 1 /\ open, eofWithLast) THEN <<>>
    ELSE <<Head(recs)>> \o UnderCeiling(Tail(recs), open, eofWithLast)

\* The records of the upstream body the scanner hands out.
ReadRecords == UnderCeiling(Records(body), Open(body), eofWithData)

Last(s) == s[Len(s)]

\* C5: what the relay wrote to the caller is byte for byte the upstream
\* body (stated for the runs in which the sink flushes, the caller stays
\* connected and no record is over the ceiling).
C5_RelayIsByteIdentical ==
    (rpc = "done" /\ flusherOK /\ ~clientGone /\ ~scanErr) => written = body

\* C6 as claimed: one UsageRecord with the last usage-bearing record's count
\* when the stream has a usage-bearing record and the key is not empty,
\* else none (stated for the runs in which the sink flushes and no record is
\* over the ceiling).
C6_OneRecordWheneverUsageSeen ==
    (rpc = "done" /\ flusherOK /\ ~scanErr) =>
        LET figs == UsageFigures(Records(body)) IN
        IF figs # <<>> /\ apiKey # ""
        THEN offered = <<UsageRecord(apiKey, Last(figs))>>
        ELSE offered = <<>>

\* C6 as amended: StreamResponse offers one UsageRecord, carrying the count
\* of the last usage-bearing record it read, exactly when the sink flushes,
\* the key is not empty and that count is greater than zero; otherwise it
\* offers none; and it never offers more than one.
C6_OneRecordForPositiveLastUsage ==
    /\ Len(offered) <= 1
    /\ rpc # "done" => offered = <<>>
    /\ rpc = "done" =>
           LET figs == UsageFigures(ReadRecords) IN
           IF flusherOK /\ apiKey # "" /\ figs # <<>> /\ Last(figs) > 0
           THEN offered = <<UsageRecord(apiKey, Last(figs))>>
           ELSE offered = <<>>

\* C6 witness: a stream with two usage-bearing records, 18 then 7, relayed
\* for a key: the one record offered carries 7.
C6_Witness ==
    /\ rpc = "done"
    /\ UsageFigures(Records(body)) = <<18, 7>>
    /\ offered = <<UsageRecord("k1", 7)>>

\* The failure counter the code increments (metrics.ErrorRate, all labels).
ObservedErrors == errorRate["redis_write"]

\* C7: every UsageRecord dropped at a full channel shows in an observable
\* count.
C7_DropsAreCounted == dropped <= ObservedErrors

\* C10: after a write to the caller has failed the loop writes nothing more
\* to the caller and reads no further record from the upstream body.
C10_RelayStopsAfterFailedWrite == afterFail = {}

\* ------------------------------------------------ claims about the gateway
\* The body as a whole is no JSON text: bytes that start no JSON value, or a
\* JSON value followed by bytes that are no white space.
Unparsable(b) == b.shape = "garbage" \/ (b.shape = "object" /\ b.trailing)

\* The admission check returned "denied" for the request of handler h.
DeniedRequest(h) == req[h].checked /\ ~req[h].chk.err /\ ~req[h].chk.allowed

\* C8: a request whose non-empty body is not parsable JSON is answered with
\* status 400, no call to the upstream is made for it and it submits no usage
\* event. Stated for the requests the admission check let through, once the
\* handler is past the point where it decodes the body and calls upstream.
C8_UnparsableBodyIsRejected ==
    \A h \in Handlers :
        (/\ Unparsable(req[h].bodyIn)
         /\ req[h].pc \in {"relay", "done"}
         /\ req[h].status \notin {402, 500})
        => (/\ req[h].pc = "done"
            /\ req[h].status = 400
            /\ req[h].msg = "Invalid JSON payload"
            /\ ~req[h].upstream
            /\ req[h].offers = 0)

\* C9: a request with a non-empty caller token for which CheckLimit returned
\* denied is answered with status 402 and the fixed limit-exceeded message;
\* no upstream call is made for it and it submits no usage event.
C9_DeniedRequestGets402 ==
    \A h \in Handlers :
        (req[h].key # "" /\ DeniedRequest(h))
        => (/\ req[h].pc = "done"
            /\ req[h].status = 402
            /\ req[h].msg = "Limit Exceeded: Usage > $10.00"
            /\ ~req[h].upstream
            /\ req[h].sent = NoFields
            /\ req[h].offers = 0)

\* A request was denied after the token's spend reached the limit.
C9_Witness ==
    \E h \in Handlers :
        /\ req[h].key # "" /\ DeniedRequest(h)
        /\ req[h].pc = "done" /\ req[h].status = 402
        /\ Spend(req[h].key) >= MaxUsageMicroDollars

\* ---------------------------------------------- claims about the shutdown
\* C11: when the process exits, every usage event that was in the queue when
\* the queue was closed has been applied to the ledger: none is left in the
\* queue.
C11_BacklogAppliedBeforeExit == main = "exited" => usageChan = <<>>

\* C12: no handler attempts to submit a UsageRecord to the queue after the
\* queue has been closed.
C12_NoSubmissionAfterClose == panics = 0

\* ------------------------------------------- claims about the request body
\* The handler of h has marshalled the body it sends upstream.
Rewritten(h) == req[h].pc \in {"upstream", "relay"} \/ req[h].upstream

\* The inbound body is empty or a JSON object and nothing else.
EmptyOrObject(b) == b.shape = "empty" \/ (b.shape = "object" /\ ~b.trailing)

\* C13: for an inbound body that is empty or a JSON object, whatever it
\* carries for stream and stream_options, the body sent upstream has
\* stream = true and stream_options = {include_usage: true} and every other
\* field as it came in (none, for an empty body); such a body is never
\* answered with 400.
C13_RewriteForcesStreamFields ==
    \A h \in Handlers :
        EmptyOrObject(req[h].bodyIn) =>
            /\ req[h].status # 400
            /\ Rewritten(h) =>
                   /\ req[h].sent["stream"] = "true"
                   /\ req[h].sent["stream_options"] = "include_usage:true"
                   /\ \A f \in FieldNames \ {"stream", "stream_options"} :
                          req[h].sent[f] = req[h].bodyIn.fields[f]

\* C13 witness: a body with stream = false and include_usage = false went
\* upstream with both forced to true and its model field kept, next to an
\* empty body that went upstream as an object of exactly the two fields.
C13_Witness ==
    \E h, g \in Handlers :
        /\ req[h].upstream /\ req[h].bodyIn.shape = "object"
        /\ req[h].bodyIn.fields["stream"] = "false"
        /\ req[h].bodyIn.fields["stream_options"] = "include_usage:false"
        /\ req[h].sent = [model |-> "m", stream |-> "true",
                          stream_options |-> "include_usage:true"]
        /\ req[g].upstream /\ req[g].bodyIn.shape = "empty"
        /\ req[g].sent = [model |-> "absent", stream |-> "true",
                          stream_options |-> "include_usage:true"]

\* ------------------------------------------ claims about the spend's course
\* A step of AddUsage, told by what it does to the callers: a caller enters
\* or leaves the inside of the in-memory AddUsage, or the call that has just
\* taken effect on the Redis backend is an AddUsage.
AddUsageStep ==
    \/ \E t \in Callers : th[t].pc = "idle" /\ th'[t].pc = "add"
    \/ \E t \in Callers : th[t].pc = "add" /\ th'[t].pc = "idle"
    \/ backend = "redis" /\ ops' = ops + 1 /\ hist'[Len(hist')].op = "AddUsage"

\* The step of AddUsage that adds: atomic.AddInt64 or INCRBY.
AddStep ==
    \/ \E t \in Callers : th[t].pc = "add" /\ th'[t].pc = "idle"
    \/ backend = "redis" /\ ops' = ops + 1 /\ hist'[Len(hist')].op = "AddUsage"

\* C14: no step lowers a key's spend; a key's spend changes only in the
\* adding step of AddUsage; and the ledger (map, counters, Redis store)
\* changes in no step but those of AddUsage, so CheckLimit and GetUsage leave
\* it as it was and create no entry for a key that has none. (A step that
\* leaves the ledger as it was leaves every spend as it was.)
C14_SpendOnlyGrowsAndOnlyByAddUsage ==
    [][ledgerVars' # ledgerVars =>
           /\ AddUsageStep
           /\ \A key \in Keys : Spend(key)' >= Spend(key)
           /\ (\E key \in Keys : Spend(key)' # Spend(key)) => AddStep]_vars

\* C14 witness: a key's spend grew by an AddUsage, then CheckLimit and
\* GetUsage ran on a key never written, which still has no entry.
C14_Witness ==
    /\ Len(hist) = 3
    /\ hist[1].op = "AddUsage" /\ ~hist[1].err /\ hist[1].n > 0
    /\ hist[1].spend > 0
    /\ hist[2].op = "CheckLimit" /\ hist[2].up
    /\ hist[3].op = "GetUsage" /\ ~hist[3].err /\ hist[3].key = hist[2].key
    /\ hist[3].key # hist[1].key
    /\ recorded[hist[3].key] = 0 /\ InAdd(hist[3].key) = {}
    /\ usageMap[hist[3].key] = NoRef
    /\ redisStore[getUsageKey(hist[3].key)] = <<>>
    /\ Spend(hist[1].key) = recorded[hist[1].key] * CostPerTokenMicroDollars

\* ----------------------------------------------- claims about the soft limit
\* An admission check has returned "denied" for the key.
DeniedSeen(key) == \E g \in Handlers : req[g].key = key /\ DeniedRequest(g)

\* C15 as claimed: once a CheckLimit call has denied a key, the key's spend
\* grows no further.
C15_SpendStopsOnceDenied ==
    [][\A key \in Keys : DeniedSeen(key) => Spend(key)' = Spend(key)]_vars

\* C15 as amended: once a CheckLimit call has denied a key, no later
\* admission check of a request with that key lets the request through (it
\* is answered 402, or 500 when the backend fails), so the spend can grow
\* only by the usage of requests admitted before the denial.
C15_NoAdmissionOnceDenied ==
    [][\A h \in Handlers :
           (/\ req[h].pc = "admit" /\ req'[h].pc # "admit"
            /\ req[h].key # "" /\ DeniedSeen(req[h].key))
           => (req'[h].pc = "done" /\ req'[h].status \in {402, 500})]_vars

\* C15 witness: two requests with one key were denied, one after the other,
\* with the key's spend at or over the limit.
C15_Witness ==
    \E h, g \in Handlers :
        /\ h # g /\ req[h].key # "" /\ req[h].key = req[g].key
        /\ DeniedRequest(h) /\ req[h].status = 402
        /\ DeniedRequest(g) /\ req[g].status = 402
        /\ Spend(req[h].key) >= MaxUsageMicroDollars

\* ------------------------------------ claims about requests without a token
\* C16: a request without a bearer token is never put to the admission
\* check: whatever the ledger holds it is answered neither 402 nor the 500
\* of a failed check, it goes upstream unless its own body stops it (400
\* for a body that does not decode, 500 for a body that cannot be read),
\* and it offers no UsageRecord.
C16_NoTokenNoCheckNoUsage ==
    \A h \in Handlers :
        (req[h].pc # "idle" /\ req[h].key = "") =>
            /\ ~req[h].checked
            /\ req[h].status # 402
            /\ req[h].msg \notin {"Limit Exceeded: Usage > $10.00",
                                  "Error validating rate limit"}
            /\ req[h].status = 500 => req[h].bodyIn.shape = "unreadable"
            /\ req[h].offers = 0
            /\ req[h].pc = "done" =>
                   \/ req[h].upstream
                   \/ req[h].status = 400 /\ req[h].msg = "Invalid JSON payload"
                   \/ req[h].status = 500 /\ req[h].msg = "Error reading request body"

\* C16 witness: a request without a token was relayed from upstream while
\* k1 stood at or over the limit, and offered no UsageRecord.
C16_Witness ==
    \E h \in Handlers :
        /\ req[h].key = "" /\ req[h].pc = "done"
        /\ req[h].upstream /\ req[h].status = 200 /\ req[h].offers = 0
        /\ Spend("k1") >= MaxUsageMicroDollars

\* ------------------------------------------ claims about a failing backend
\* C17: a CheckLimit call the backend does not answer returns an error
\* whatever the store holds, and a request whose admission check returned an
\* error is answered 500 with the rate-limit error text, never 402; no
\* upstream call is made for it and it offers no UsageRecord.
C17_BackendFailureGets500 ==
    /\ \A key \in Keys : RedisCheckLimit(key, FALSE).err
    /\ \A h \in Handlers :
           (req[h].checked /\ req[h].chk.err) =>
               /\ req[h].pc = "done"
               /\ req[h].status = 500
               /\ req[h].msg = "Error validating rate limit"
               /\ ~req[h].upstream
               /\ req[h].sent = NoFields
               /\ req[h].offers = 0

\* C17 witness: Redis failed during the admission check of a request whose
\* key was at the limit: the answer is 500.
C17_Witness ==
    \E h \in Handlers :
        /\ backend = "redis" /\ req[h].key # ""
        /\ req[h].checked /\ req[h].chk.err
        /\ req[h].pc = "done" /\ req[h].status = 500
        /\ Spend(req[h].key) >= MaxUsageMicroDollars

\* -------------------------------------------- claims about the usage worker
\* The events accepted into the queue and not yet applied: those still in
\* the channel and the one the worker has received and not yet passed
\* through AddUsage.
Pending ==
    usageChan \o (IF worker.pc \in {"add", "add2"} THEN <<worker.rec>> ELSE <<>>)

\* C18: every usage event accepted into the queue is applied by the worker
\* to AddUsage: when the execution is over, none is left in the queue or in
\* the worker's hands.
C18_AcceptedEventsAreApplied == main = "exited" => Pending = <<>>

\* ------------------------------------- claims about admission and accounting
\* The handler of h was let through by CheckLimit and has relayed a stream.
AdmittedAndRelayed(h) ==
    /\ req[h].key # "" /\ req[h].checked /\ req[h].chk.allowed /\ ~req[h].chk.err
    /\ req[h].pc = "done" /\ req[h].status = 200

\* C19: admission and accounting are not linked: a request CheckLimit let
\* through offers the usage of its stream (every stream of UpBodies reports
\* some) whatever the key's spend has become since its check. The execution
\* the claim speaks of is the witness.
C19_UsageOfferedWhateverTheSpend ==
    \A h \in Handlers : AdmittedAndRelayed(h) => req[h].offers = 1

\* C19 witness: two requests with one key were both let through, each with
\* a stream of 5,000,000 tokens (either one alone takes the spend to the
\* limit, so both checks came before any of that usage was recorded), and
\* with both recorded the spend is over the limit.
C19_Witness ==
    \E h, g \in Handlers :
        /\ h # g /\ req[h].key = req[g].key
        /\ AdmittedAndRelayed(h) /\ req[h].offers = 1
        /\ AdmittedAndRelayed(g) /\ req[g].offers = 1
        /\ Pending = <<>>
        /\ Spend(req[h].key) = 2 * MaxUsageMicroDollars
        /\ Spend(req[h].key) > MaxUsageMicroDollars

\* ------------------------------------------ claims about the relay's order
\* What the loop writes for a sequence of records: each line as the scanner
\* hands it over, followed by "\n".
RECURSIVE Relayed(_)
Relayed(recs) ==
    IF recs = <<>> THEN <<>>
    ELSE DropCR(Head(recs)) \o <<"LF">> \o Relayed(Tail(recs))

\* The part of the upstream body the scanner has consumed.
Consumed == SubSeq(body, 1, pos)

\* C20: with the caller connected, whenever the loop is about to inspect a
\* record for usage, about to read the next record, or has left the loop,
\* every record read so far has been written to the caller and flushed:
\* none waits for a later record or for its own inspection.
C20_WrittenAndFlushedBeforeNextRead ==
    (rpc \in {"inspect", "scan", "dispatch"} /\ ~clientGone) =>
        /\ written = Relayed(Records(Consumed))
        /\ flushed = Len(written)

\* C20 witness: a usage record of a longer stream has been written and
\* flushed while it is not yet inspected and the next record is not yet read.
C20_Witness ==
    /\ rpc = "inspect" /\ ~clientGone
    /\ line = <<"data: ", "usage:18">> /\ tokenCount = 0
    /\ pos < Len(body)
    /\ written = line \o <<"LF">>
    /\ flushed = Len(written)

\* ------------------------------------------ claims about the response head
\* C21: no body byte is written to the caller before the upstream status
\* code and all upstream headers are: while StreamResponse has not yet
\* written them nothing is written, and from then on the caller's response
\* carries the upstream status and every value of every upstream header.
C21_HeadBeforeBody ==
    /\ rpc = "start" => (written = <<>> /\ flushed = 0)
    /\ rpc \notin {"idle", "start"} =>
           /\ respHead.wStatus = respHead.StatusCode
           /\ respHead.wHeader = respHead.Header

\* C21 witness: body bytes have reached a caller whose response carries the
\* upstream's status 429 and both values of its repeated header.
C21_Witness ==
    /\ written # <<>> /\ flushed > 0
    /\ respHead.wStatus = 429
    /\ respHead.wHeader["Set-Cookie"] = <<"a=1", "b=2">>

\* ------------------------------------- claims about an oversized record
IsPrefix(p, q) == Len(p) <= Len(q) /\ SubSeq(q, 1, Len(p)) = p

\* Some record of the sequence does not fit the scanner's buffer.
Oversized(recs, open, eofWithLast) ==
    \E i \in 1..Len(recs) : TooLong(recs[i], i = Len(recs) /\ open, eofWithLast)

\* C22: when a record of the upstream body is over the record size ceiling
\* the loop ends with the scanner's error (and with no error otherwise), and
\* once it has ended the caller has the records before the oversized one
\* and nothing else: written and flushed in full when the caller stayed
\* connected, a leading part of them when it left; nothing of the oversized
\* record or of a later one. A record of exactly the ceiling's length counts
\* as over it unless it ends the body, without "\n", together with io.EOF.
C22_OversizedRecordAbortsRelay ==
    LET over == Oversized(Records(body), Open(body), eofWithData) IN
    (rpc \in {"dispatch", "done"} /\ flusherOK) =>
        /\ scanErr <=> over
        /\ over =>
               /\ IsPrefix(written, Relayed(ReadRecords))
               /\ ~clientGone =>
                      /\ written = Relayed(ReadRecords)
                      /\ flushed = Len(written)

\* C22 witness: a usage record followed by a record over the ceiling: the
\* call has returned, the first record is with the caller, flushed, and
\* the relay stopped at the second.
C22_Witness ==
    /\ rpc = "done" /\ scanErr /\ ~clientGone
    /\ body = <<"data: ", "usage:18", "LF", "BIG", "CR", "LF">>
    /\ Bytes(Records(body)[2]) > MaxTokenSize
    /\ written = <<"data: ", "usage:18", "LF">>
    /\ flushed = 3

\* ------------------------------------ claims about unusable data records
\* A data-prefixed record whose payload is the terminal sentinel or is not
\* valid JSON, with or without a "\r" before the "\n".
IsUnusableRecord(rec) ==
    /\ Len(rec) \in {2, 3}
    /\ rec[1] = "data: " /\ rec[2] \in {"[DONE]", "text"}
    /\ Len(rec) = 3 => rec[3] = "CR"

\* C23: a stream in which the relay reads a data record with the sentinel
\* or with a payload that is not valid JSON is relayed to its end all the
\* same (every record under the ceiling written, with the caller
\* connected), and the usage figure at the end is that of the last
\* usage-bearing record, whether it came before or after the unusable one;
\* that figure, when positive and for a key, is the one submitted.
C23_UnusableRecordChangesNothing ==
    LET recs == ReadRecords
        figs == UsageFigures(recs)
    IN  (rpc = "done" /\ flusherOK /\ \E i \in 1..Len(recs) : IsUnusableRecord(recs[i])) =>
            /\ ~clientGone => written = Relayed(recs)
            /\ tokenCount = IF figs = <<>> THEN 0 ELSE Last(figs)
            /\ offered = IF tokenCount > 0 /\ apiKey # ""
                         THEN <<UsageRecord(apiKey, tokenCount)>> ELSE <<>>

\* C23 witness: a usage record of 18 tokens followed by a data record that
\* is not JSON: both are with the caller and 18 is what was submitted.
C23_Witness ==
    /\ rpc = "done" /\ ~clientGone
    /\ body = <<"data: ", "usage:18", "LF", "data: ", "text", "LF">>
    /\ written = body
    /\ offered = <<UsageRecord("k1", 18)>>

\* ------------------------------------- claims about a sink without Flush
\* C24: when the caller's response sink is not a Flusher, StreamResponse
\* does nothing beyond the status and the headers: at no point of the call
\* has it read a byte of the upstream body, written or flushed a byte to
\* the caller, or offered a usage record, and it returns with the upstream
\* status and headers written.
C24_NoFlusherNoRelayNoUsage ==
    (~flusherOK /\ rpc # "idle") =>
        /\ rpc \in {"start", "done"}
        /\ pos = 0 /\ written = <<>> /\ flushed = 0
        /\ tokenCount = 0 /\ offered = <<>> /\ dropped = 0
        /\ rpc = "done" =>
               /\ respHead.wStatus = respHead.StatusCode
               /\ respHead.wHeader = respHead.Header

\* C24 witness: the call has returned for a keyed request whose sink cannot
\* flush and whose upstream stream carries a usage record of 18 tokens:
\* status 200 and the header are written, nothing else, nothing offered.
C24_Witness ==
    /\ rpc = "done" /\ ~flusherOK /\ apiKey = "k1"
    /\ UsageFigures(Records(body)) = <<18>>
    /\ respHead.wStatus = 200
    /\ respHead.wHeader["Content-Type"] = <<"text/event-stream">>
    /\ written = <<>> /\ offered = <<>>

\* ------------------------------------------ claims about per-key isolation
\* The step is a step of an AddUsage call on the key: a caller enters or
\* leaves the inside of the in-memory AddUsage for it, or the call that has
\* just taken effect on the Redis backend is an AddUsage on it.
AddUsageStepOn(key) ==
    \/ \E t \in Callers : th[t].pc = "idle" /\ th'[t].pc = "add" /\ th'[t].key = key
    \/ \E t \in Callers : th[t].pc = "add" /\ th'[t].pc = "idle" /\ th[t].key = key
    \/ /\ backend = "redis" /\ ops' = ops + 1
       /\ hist'[Len(hist')].op = "AddUsage" /\ hist'[Len(hist')].key = key

\* The tokens of the AddUsage calls on the key that are past their
\* LoadOrStore and before their add.
RECURSIVE TokensOf(_)
TokensOf(S) ==
    IF S = {} THEN 0
    ELSE LET t == CHOOSE u \in S : TRUE IN th[t].n + TokensOf(S \ {t})

\* The cost of the usage recorded for the key by the AddUsage calls on that
\* key which have added.
OwnUsageCost(key) == Cost(recorded[key] - TokensOf(InAdd(key)))

\* The call that took effect last returned what the usage recorded for its
\* own key gives.
LastResultFromOwnUsage ==
    hist # <<>> =>
        LET e == hist[Len(hist)] IN
        /\ (e.op = "CheckLimit" /\ e.up) =>
               ((e.allowed /\ ~e.err) <=> UnderLimit(OwnUsageCost(e.key)))
        /\ (e.op = "GetUsage" /\ e.up) => (~e.err /\ e.val = OwnUsageCost(e.key))

\* C25: a step that changes the ledger is a step of AddUsage on one key and
\* leaves every other key as it was: its spend, its map entry, its Redis
\* text; and each CheckLimit or GetUsage call the backend answers returns
\* what the usage recorded for its own key gives, whatever calls on other
\* keys are interleaved with it.
C25_PerKeyIsolation ==
    [][/\ ledgerVars' # ledgerVars =>
              \E key \in Keys :
                  /\ AddUsageStepOn(key)
                  /\ \A other \in Keys \ {key} :
                         /\ Spend(other)' = Spend(other)
                         /\ usageMap'[other] = usageMap[other]
                         /\ redisStore'[getUsageKey(other)] = redisStore[getUsageKey(other)]
       /\ hist' # hist => LastResultFromOwnUsage']_vars

\* C25 witness: GetUsage on a key with spend, then an AddUsage on the other
\* key, then GetUsage on the first key again, which returns what it
\* returned before while the other key's spend has grown.
C25_Witness ==
    /\ Len(hist) = 3
    /\ hist[1].op = "GetUsage" /\ ~hist[1].err /\ hist[1].val > 0
    /\ hist[2].op = "AddUsage" /\ ~hist[2].err /\ hist[2].n > 0
    /\ hist[2].key # hist[1].key /\ hist[2].spend > 0
    /\ hist[3].op = "GetUsage" /\ ~hist[3].err /\ hist[3].key = hist[1].key
    /\ hist[3].val = hist[1].val
    /\ Spend(hist[1].key) = hist[1].val
    /\ Spend(hist[2].key) = hist[2].spend
    /\ Spend(hist[2].key) # Spend(hist[1].key)

====
